---- MODULE Spec2Model ----
(***************************************************************************)
(* Model of consent_forms/build_consent.py: the four pattern matchers, the *)
(* field replacement policy (perform_conditional_replacements) and the     *)
(* batch driver loop of main.                                              *)
(*                                                                         *)
(* A document is a sequence of tokens.  A token is a piece of markup text  *)
(* that the regular expressions of the source treat as a unit; it is       *)
(* written as the text it stands for (a-umlaut is written ae):             *)
(*   comments   "<!-- NAME -->" as the code emits them, and a variant      *)
(*              "<!--name-->" that the IGNORECASE, \s* pattern also matches*)
(*   h3 heads   "<h3>TEXT</h3>"                                            *)
(*   h2 heads   "<h2>Einwilligungserklaerung</h2>", "<h2>Studie</h2>"      *)
(*   boundaries "<br>", "</div>", ...                                      *)
(*   whitespace "\n"                                                       *)
(*   text       "old", "X", "Y", "Z", "5", "Einwilligungserklaerung"       *)
(*              "<p>OLD</p>", "NEW TEXT"                                   *)
(***************************************************************************)
EXTENDS Integers, Sequences, FiniteSets, TLC

VARIABLES
    \* ---- batch driver (main) ----
    pc,               \* position in main's loop
    base_template,    \* the template text read once before the loop
    mapping,          \* the configuration: sequence of [site, cfg] in dict order
    dry_run,          \* args.dry_run
    idx,              \* index in mapping of the entry the loop is at
    result_html,      \* perform_conditional_replacements' local result_html
    generated_count,
    skipped_count,
    produced,         \* sequence of [site, html, written]: documents handed on
    log,              \* sequence of [site, field, level, what]: logger calls
    calls,            \* sequence of [site, field, matcher]: matcher invocations
    steps,            \* sequence of [site, field, pre, post]: result_html
                      \* before and after each field's block
    \* ---- matcher harness: one pure matcher applied to drawn inputs ----
    m_pc, m_html, m_start, m_end, m_repl, m_res1, m_res2

drv_vars == <<pc, base_template, mapping, dry_run, idx, result_html,
              generated_count, skipped_count, produced, log, calls, steps>>
m_vars == <<m_pc, m_html, m_start, m_end, m_repl, m_res1, m_res2>>
vars == <<drv_vars, m_vars>>

----------------------------------------------------------------------------
(* Bounds *)
MaxDocLen == 4      \* length of the documents given to the matcher harness
MaxTplLen == 4      \* length of the enumerated templates of SpecFields
MaxSites == 2       \* entries of the mapping in Spec
MaxComposeLen == 4  \* length of the enumerated templates of SpecCompose

----------------------------------------------------------------------------
(* Tokens and their classification by the patterns of the source *)

Min(S) == CHOOSE x \in S : \A y \in S : x <= y
Max(S) == CHOOSE x \in S : \A y \in S : x >= y

\* all sequences over S of length 0..n
SeqsUpTo(S, n) == UNION {[1..k -> S] : k \in 0..n}

\* f"<!-- {marker} -->": the comment as replace_between_markers emits it
Comment(name) ==
    CASE name = "REIMBURSEMENT_START" -> "<!-- REIMBURSEMENT_START -->"
      [] name = "REIMBURSEMENT_END"   -> "<!-- REIMBURSEMENT_END -->"
      [] name = "DPO_START"           -> "<!-- DPO_START -->"
      [] name = "DPO_END"             -> "<!-- DPO_END -->"
      [] name = "COMPLAIN_START"      -> "<!-- COMPLAIN_START -->"
      [] name = "COMPLAIN_END"        -> "<!-- COMPLAIN_END -->"

\* the marker NAME for which tok matches <!--\s*NAME\s*--> under IGNORECASE,
\* "" when tok is no such comment
CommentName(tok) ==
    CASE tok \in {"<!-- REIMBURSEMENT_START -->", "<!--reimbursement_start-->"}
            -> "REIMBURSEMENT_START"
      [] tok \in {"<!-- REIMBURSEMENT_END -->", "<!--reimbursement_end-->"}
            -> "REIMBURSEMENT_END"
      [] tok \in {"<!-- DPO_START -->", "<!--dpo_start-->"} -> "DPO_START"
      [] tok \in {"<!-- DPO_END -->", "<!--dpo_end-->"} -> "DPO_END"
      [] tok \in {"<!-- COMPLAIN_START -->", "<!--complain_start-->"}
            -> "COMPLAIN_START"
      [] tok \in {"<!-- COMPLAIN_END -->", "<!--complain_end-->"}
            -> "COMPLAIN_END"
      [] OTHER -> ""

\* the heading TEXT for which tok matches <h3[^>]*>\s*TEXT\s*</h3> under
\* IGNORECASE, "" when tok is no h3 heading element
H3Text(tok) ==
    CASE tok \in {"<h3>Aufwandsentschaedigung</h3>",
                  "<H3 class=a> aufwandsentschaedigung </H3>"}
            -> "Aufwandsentschaedigung"
      [] tok = "<h3>Verantwortliche</h3>" -> "Verantwortliche"
      [] tok = "<h3>Rechtsgrundlage</h3>" -> "Rechtsgrundlage"
      [] tok = "<h3>Beschwerderecht</h3>" -> "Beschwerderecht"
      [] tok = "<h3>Next</h3>" -> "Next"
      [] OTHER -> ""

\* \s
IsSpace(tok) == tok = "\n"

\* tok begins with text that <h2[^>]*> matches
StartsH2(tok) == tok \in {"<h2>Einwilligungserklaerung</h2>", "<h2>Studie</h2>"}
\* tok holds the fragment
HasFragment(tok, fragment) ==
    /\ fragment = "Einwilligungserklaerung"
    /\ tok \in {"<h2>Einwilligungserklaerung</h2>", "Einwilligungserklaerung"}
\* tok holds </h2>
HasH2Close(tok) == tok \in {"<h2>Einwilligungserklaerung</h2>", "<h2>Studie</h2>"}
\* tok holds the fragment and a </h2> after it
HasFragmentThenClose(tok, fragment) ==
    /\ fragment = "Einwilligungserklaerung"
    /\ tok = "<h2>Einwilligungserklaerung</h2>"

\* the alternatives </body> and </html> left out
IsBoundaryNoBody(tok) ==
    \/ H3Text(tok) # ""
    \/ StartsH2(tok)
    \/ tok \in {"</section>", "</div>", "<button>", "<br>"}

\* the text at tok's start matches the lookahead alternatives
\* <h[23][^>]*> | </section> | </div> | <button | <br | </body> | </html>
IsBoundary(tok) ==
    \/ H3Text(tok) # ""
    \/ StartsH2(tok)
    \/ tok \in {"</section>", "</div>", "<button>", "<br>", "</body>",
                "</html>"}

\* a configured value (site_cfg.get(key)): the key is absent, JSON null, a
\* string (a token sequence, possibly empty), or a non-zero JSON number
Absent == [kind |-> "absent", toks |-> <<>>]
Null == [kind |-> "null", toks |-> <<>>]
Str(toks) == [kind |-> "str", toks |-> toks]
Num == [kind |-> "num", toks |-> <<"5">>]

\* "is not None" in place of truthiness
TruthyNotNone(v) == v.kind \in {"num", "str"}

\* Python truthiness of a configured value
Truthy(v) == \/ v.kind = "num"
             \/ v.kind = "str" /\ v.toks # <<>>

\* a matcher's result: (new_html, found), or an exception escaping it
Result(html, found) == [html |-> html, found |-> found, raised |-> FALSE]
Raised(html) == [html |-> html, found |-> FALSE, raised |-> TRUE]

----------------------------------------------------------------------------
(* replace_between_markers *)

\* greedy: up to the last end comment
MarkerMatchGreedy(html, start_marker, end_marker) ==
    LET ends(i) == {j \in (i+1)..Len(html) : CommentName(html[j]) = end_marker}
        starts == {i \in DOMAIN html :
                      CommentName(html[i]) = start_marker /\ ends(i) # {}}
    IN  IF starts = {} THEN [lo |-> 0, hi |-> 0]
        ELSE [lo |-> Min(starts), hi |-> Max(ends(Min(starts)))]

\* the end comment only looked ahead at, as the heading patterns do, so the
\* match stops before it
MarkerMatchEndLookahead(html, start_marker, end_marker) ==
    LET ends(i) == {j \in (i+1)..Len(html) : CommentName(html[j]) = end_marker}
        starts == {i \in DOMAIN html :
                      CommentName(html[i]) = start_marker /\ ends(i) # {}}
    IN  IF starts = {} THEN [lo |-> 0, hi |-> 0]
        ELSE [lo |-> Min(starts), hi |-> Min(ends(Min(starts))) - 1]

\* the span the pattern <!--\s*START\s*-->[\s\S]*?<!--\s*END\s*--> matches
\* first: leftmost start comment that an end comment follows, lazily up to
\* the first end comment after it.  lo = 0: no match.
MarkerMatch(html, start_marker, end_marker) ==
    LET ends(i) == {j \in (i+1)..Len(html) : CommentName(html[j]) = end_marker}
        starts == {i \in DOMAIN html :
                      CommentName(html[i]) = start_marker /\ ends(i) # {}}
    IN  IF starts = {} THEN [lo |-> 0, hi |-> 0]
        ELSE [lo |-> Min(starts), hi |-> Min(ends(Min(starts)))]

\* _repl is an f-string: any value is formatted, nothing raises
replace_between_markers(html, start_marker, end_marker, replacement_html) ==
    LET m == MarkerMatch(html, start_marker, end_marker)
    IN  IF m.lo = 0 THEN Result(html, FALSE)
        ELSE Result(SubSeq(html, 1, m.lo - 1)
                      \o <<Comment(start_marker), "\n">>
                      \o replacement_html.toks
                      \o <<"\n", Comment(end_marker)>>
                      \o SubSeq(html, m.hi + 1, Len(html)),
                    TRUE)

----------------------------------------------------------------------------
(* The heading matchers *)

\* index of the last token of the prefix group <h3..>TEXT</h3>\s* for a
\* heading at i: the heading and the whitespace that follows it
RECURSIVE PrefixEnd(_, _)
PrefixEnd(html, i) ==
    IF i < Len(html) /\ IsSpace(html[i+1]) THEN PrefixEnd(html, i+1) ELSE i

\* the "\n" after the replacement left out
SplicedNoNewline(html, prefixEnd, replacement_html, rest) ==
    IF replacement_html.kind # "str" THEN Raised(html)
    ELSE Result(SubSeq(html, 1, prefixEnd) \o replacement_html.toks
                  \o SubSeq(html, rest, Len(html)),
                TRUE)

\* prefix + replacement_html + "\n": str + non-str raises TypeError
Spliced(html, prefixEnd, replacement_html, rest) ==
    IF replacement_html.kind # "str" THEN Raised(html)
    ELSE Result(SubSeq(html, 1, prefixEnd) \o replacement_html.toks \o <<"\n">>
                  \o SubSeq(html, rest, Len(html)),
                TRUE)

\* \Z left out of the lookahead: a heading that no boundary follows does not
\* match
AfterHeadingMatchNoEnd(html, heading_text) ==
    LET heads == {i \in DOMAIN html :
                     /\ H3Text(html[i]) = heading_text
                     /\ \E k \in (PrefixEnd(html, i)+1)..Len(html) :
                            IsBoundary(html[k])}
    IN  IF heads = {} THEN [at |-> 0, pe |-> 0, rest |-> 0]
        ELSE LET i == Min(heads)
                 pe == PrefixEnd(html, i)
             IN  [at |-> i, pe |-> pe,
                  rest |-> Min({k \in (pe+1)..Len(html) : IsBoundary(html[k])})]

\* the first match of <h3..>TEXT</h3>\s* [\s\S]*? (?=boundary|\Z): the first
\* heading with the text; the section runs from after the prefix to the first
\* boundary at or after that place, or to the end.  at = 0: no match;
\* rest = index of the first token kept after the section.
AfterHeadingMatch(html, heading_text) ==
    LET heads == {i \in DOMAIN html : H3Text(html[i]) = heading_text}
    IN  IF heads = {} THEN [at |-> 0, pe |-> 0, rest |-> 0]
        ELSE LET i == Min(heads)
                 pe == PrefixEnd(html, i)
                 bs == {k \in (pe+1)..Len(html) : IsBoundary(html[k])}
             IN  [at |-> i, pe |-> pe,
                  rest |-> IF bs = {} THEN Len(html) + 1 ELSE Min(bs)]

replace_section_after_heading(html, heading_text, replacement_html) ==
    LET m == AfterHeadingMatch(html, heading_text)
    IN  IF m.at = 0 THEN Result(html, FALSE)
        ELSE Spliced(html, m.pe, replacement_html, m.rest)

\* the lookahead taking any h3 heading for the end heading
BetweenHeadingsMatchAnyH3(html, start_heading_text, end_heading_text) ==
    LET ends(i) == {j \in (i+1)..Len(html) : H3Text(html[j]) # ""}
        heads == {i \in DOMAIN html :
                     H3Text(html[i]) = start_heading_text /\ ends(i) # {}}
    IN  IF heads = {} THEN [at |-> 0, pe |-> 0, rest |-> 0]
        ELSE LET i == Min(heads)
             IN  [at |-> i, pe |-> PrefixEnd(html, i), rest |-> Min(ends(i))]

\* the first match of <h3..>START</h3>\s* [\s\S]*? (?=<h3..>END</h3>): the
\* first start heading that an end heading follows, up to the first end
\* heading after it
BetweenHeadingsMatch(html, start_heading_text, end_heading_text) ==
    LET ends(i) == {j \in (i+1)..Len(html) : H3Text(html[j]) = end_heading_text}
        heads == {i \in DOMAIN html :
                     H3Text(html[i]) = start_heading_text /\ ends(i) # {}}
    IN  IF heads = {} THEN [at |-> 0, pe |-> 0, rest |-> 0]
        ELSE LET i == Min(heads)
             IN  [at |-> i, pe |-> PrefixEnd(html, i), rest |-> Min(ends(i))]

replace_between_headings(html, start_heading_text, end_heading_text, replacement_html) ==
    LET m == BetweenHeadingsMatch(html, start_heading_text, end_heading_text)
    IN  IF m.at = 0 THEN Result(html, FALSE)
        ELSE Spliced(html, m.pe, replacement_html, m.rest)

\* the lookahead (?=<h2[^>]*>[\s\S]*?FRAGMENT[\s\S]*?</h2>) at token k: an h2
\* opening tag there, the fragment somewhere after the tag, and a </h2>
\* somewhere after the fragment
H2Lookahead(html, k, fragment) ==
    /\ StartsH2(html[k])
    /\ \E f \in k..Len(html) :
          \/ HasFragmentThenClose(html[f], fragment)
          \/ /\ HasFragment(html[f], fragment)
             /\ \E c \in (f+1)..Len(html) : HasH2Close(html[c])

HeadingToH2Match(html, start_h3_text, end_h2_contains_text) ==
    LET ends(i) == {k \in (i+1)..Len(html) :
                       H2Lookahead(html, k, end_h2_contains_text)}
        heads == {i \in DOMAIN html :
                     H3Text(html[i]) = start_h3_text /\ ends(i) # {}}
    IN  IF heads = {} THEN [at |-> 0, pe |-> 0, rest |-> 0]
        ELSE LET i == Min(heads)
             IN  [at |-> i, pe |-> PrefixEnd(html, i), rest |-> Min(ends(i))]

replace_between_heading_and_h2(html, start_h3_text, end_h2_contains_text, replacement_html) ==
    LET m == HeadingToH2Match(html, start_h3_text, end_h2_contains_text)
    IN  IF m.at = 0 THEN Result(html, FALSE)
        ELSE Spliced(html, m.pe, replacement_html, m.rest)

----------------------------------------------------------------------------
(* perform_conditional_replacements *)

CfgKeys == {"0_html_consent_form_location",
            "1a_individual_reimbursement", "1a_individual_reimbursement_text",
            "1b_individual_data_protection", "1b_individual_data_protection_text",
            "1c_individual_complain", "1c_individual_complain_text"}

\* the default "yes" in place of "no"
PyStrDefaultYes(v) ==
    CASE v.kind = "absent" -> "yes"
      [] v.kind = "null" -> "None"
      [] v.kind = "num" -> "5"
      [] v.kind = "str" -> IF v.toks = <<>> THEN "" ELSE v.toks[1]

\* str(site_cfg.get(key, "no")): the default stands in for an absent key only
PyStr(v) ==
    CASE v.kind = "absent" -> "no"
      [] v.kind = "null" -> "None"
      [] v.kind = "num" -> "5"
      [] v.kind = "str" -> IF v.toks = <<>> THEN "" ELSE v.toks[1]

\* no lowering: the comparison is case-sensitive
LowerOmitted(s) == s

\* str.lower() on the strings the model uses
Lower(s) ==
    CASE s \in {"yes", "Yes", "YES"} -> "yes"
      [] s \in {"no", "No"} -> "no"
      [] s = "None" -> "none"
      [] s \in {"default", "Default", "DEFAULT"} -> "default"
      [] OTHER -> s

FlagYes(site_cfg, key) == Lower(PyStr(site_cfg[key])) = "yes"

Warning(site, field, what) ==
    [site |-> site, field |-> field, level |-> "warning", what |-> what]
Debug(site, field, what) ==
    [site |-> site, field |-> field, level |-> "debug", what |-> what]
Call(site, field, matcher) == [site |-> site, field |-> field, matcher |-> matcher]

\* what one field's block does: the new result_html, the logger calls and the
\* matcher calls it makes in order, and whether an exception leaves it
Outcome(html, lg, cl, raised) ==
    [html |-> html, log |-> lg, calls |-> cl, raised |-> raised]

\* the heading fallback tried before the markers
ReimbursementBlockHeadingFirst(st, html, cfg) ==
    LET f == "reimbursement"
        reimburse_yes == FlagYes(cfg, "1a_individual_reimbursement")
        reimburse_text == cfg["1a_individual_reimbursement_text"]
        r1 == replace_section_after_heading(html, "Aufwandsentschaedigung",
                                            reimburse_text)
        r2 == replace_between_markers(html, "REIMBURSEMENT_START",
                                      "REIMBURSEMENT_END", reimburse_text)
        c1 == <<Call(st, f, "after_heading")>>
        c2 == c1 \o <<Call(st, f, "markers")>>
    IN  IF ~reimburse_yes THEN Outcome(html, <<>>, <<>>, FALSE)
        ELSE IF ~Truthy(reimburse_text)
        THEN Outcome(html, <<Warning(st, f, "text_missing")>>, <<>>, FALSE)
        ELSE IF r1.raised THEN Outcome(html, <<>>, c1, TRUE)
        ELSE IF r1.found
        THEN Outcome(r1.html, <<Debug(st, f, "after_heading")>>, c1, FALSE)
        ELSE IF r2.found
        THEN Outcome(r2.html, <<Debug(st, f, "markers")>>, c2, FALSE)
        ELSE Outcome(html, <<Warning(st, f, "not_located")>>, c2, FALSE)

\* 1b: Reimbursement
ReimbursementBlock(site, html, site_cfg) ==
    LET f == "reimbursement"
        reimburse_yes == FlagYes(site_cfg, "1a_individual_reimbursement")
        reimburse_text == site_cfg["1a_individual_reimbursement_text"]
        r1 == replace_between_markers(html, "REIMBURSEMENT_START",
                                      "REIMBURSEMENT_END", reimburse_text)
        r2 == replace_section_after_heading(html, "Aufwandsentschaedigung",
                                            reimburse_text)
        c1 == <<Call(site, f, "markers")>>
        c2 == c1 \o <<Call(site, f, "after_heading")>>
    IN  IF ~reimburse_yes THEN Outcome(html, <<>>, <<>>, FALSE)
        ELSE IF ~Truthy(reimburse_text)
        THEN Outcome(html, <<Warning(site, f, "text_missing")>>, <<>>, FALSE)
        ELSE IF r1.found
        THEN Outcome(r1.html, <<Debug(site, f, "markers")>>, c1, FALSE)
        ELSE IF r2.raised THEN Outcome(html, <<>>, c2, TRUE)
        ELSE IF r2.found
        THEN Outcome(r2.html, <<Debug(site, f, "after_heading")>>, c2, FALSE)
        ELSE Outcome(html, <<Warning(site, f, "not_located")>>, c2, FALSE)

\* the marker pair tried before the two headings
DataProtectionBlockMarkersFirst(st, html, cfg) ==
    LET f == "data_protection"
        dpo_yes == FlagYes(cfg, "1b_individual_data_protection")
        dpo_text == cfg["1b_individual_data_protection_text"]
        r1 == replace_between_markers(html, "DPO_START", "DPO_END", dpo_text)
        r2 == replace_between_headings(html, "Verantwortliche",
                                       "Rechtsgrundlage", dpo_text)
        r3 == replace_section_after_heading(html, "Verantwortliche", dpo_text)
        c1 == <<Call(st, f, "markers")>>
        c2 == c1 \o <<Call(st, f, "between_headings")>>
        c3 == c2 \o <<Call(st, f, "after_heading")>>
    IN  IF ~dpo_yes THEN Outcome(html, <<>>, <<>>, FALSE)
        ELSE IF ~Truthy(dpo_text)
        THEN Outcome(html, <<Warning(st, f, "text_missing")>>, <<>>, FALSE)
        ELSE IF r1.found
        THEN Outcome(r1.html, <<Debug(st, f, "markers")>>, c1, FALSE)
        ELSE IF r2.raised THEN Outcome(html, <<>>, c2, TRUE)
        ELSE IF r2.found
        THEN Outcome(r2.html, <<Debug(st, f, "between_headings")>>, c2, FALSE)
        ELSE IF r3.raised THEN Outcome(html, <<>>, c3, TRUE)
        ELSE IF r3.found
        THEN Outcome(r3.html, <<Debug(st, f, "after_heading")>>, c3, FALSE)
        ELSE Outcome(html, <<Warning(st, f, "not_located")>>, c3, FALSE)

\* the last else branch without its logger.warning
DataProtectionBlockSilent(st, html, cfg) ==
    LET f == "data_protection"
        dpo_yes == FlagYes(cfg, "1b_individual_data_protection")
        dpo_text == cfg["1b_individual_data_protection_text"]
        r1 == replace_between_headings(html, "Verantwortliche",
                                       "Rechtsgrundlage", dpo_text)
        r2 == replace_between_markers(html, "DPO_START", "DPO_END", dpo_text)
        r3 == replace_section_after_heading(html, "Verantwortliche", dpo_text)
        c1 == <<Call(st, f, "between_headings")>>
        c2 == c1 \o <<Call(st, f, "markers")>>
        c3 == c2 \o <<Call(st, f, "after_heading")>>
    IN  IF ~dpo_yes THEN Outcome(html, <<>>, <<>>, FALSE)
        ELSE IF ~Truthy(dpo_text)
        THEN Outcome(html, <<Warning(st, f, "text_missing")>>, <<>>, FALSE)
        ELSE IF r1.raised THEN Outcome(html, <<>>, c1, TRUE)
        ELSE IF r1.found
        THEN Outcome(r1.html, <<Debug(st, f, "between_headings")>>, c1, FALSE)
        ELSE IF r2.found
        THEN Outcome(r2.html, <<Debug(st, f, "markers")>>, c2, FALSE)
        ELSE IF r3.raised THEN Outcome(html, <<>>, c3, TRUE)
        ELSE IF r3.found
        THEN Outcome(r3.html, <<Debug(st, f, "after_heading")>>, c3, FALSE)
        ELSE Outcome(html, <<>>, c3, FALSE)

\* 1c: Data protection
DataProtectionBlock(site, html, site_cfg) ==
    LET f == "data_protection"
        dpo_yes == FlagYes(site_cfg, "1b_individual_data_protection")
        dpo_text == site_cfg["1b_individual_data_protection_text"]
        r1 == replace_between_headings(html, "Verantwortliche",
                                       "Rechtsgrundlage", dpo_text)
        r2 == replace_between_markers(html, "DPO_START", "DPO_END", dpo_text)
        r3 == replace_section_after_heading(html, "Verantwortliche", dpo_text)
        c1 == <<Call(site, f, "between_headings")>>
        c2 == c1 \o <<Call(site, f, "markers")>>
        c3 == c2 \o <<Call(site, f, "after_heading")>>
    IN  IF ~dpo_yes THEN Outcome(html, <<>>, <<>>, FALSE)
        ELSE IF ~Truthy(dpo_text)
        THEN Outcome(html, <<Warning(site, f, "text_missing")>>, <<>>, FALSE)
        ELSE IF r1.raised THEN Outcome(html, <<>>, c1, TRUE)
        ELSE IF r1.found
        THEN Outcome(r1.html, <<Debug(site, f, "between_headings")>>, c1, FALSE)
        ELSE IF r2.found
        THEN Outcome(r2.html, <<Debug(site, f, "markers")>>, c2, FALSE)
        ELSE IF r3.raised THEN Outcome(html, <<>>, c3, TRUE)
        ELSE IF r3.found
        THEN Outcome(r3.html, <<Debug(site, f, "after_heading")>>, c3, FALSE)
        ELSE Outcome(html, <<Warning(site, f, "not_located")>>, c3, FALSE)

\* site_cfg[key] in place of site_cfg.get(key): an absent text key raises
ComplaintBlockKeyError(st, html, cfg) ==
    LET f == "complaint"
        complain_yes == FlagYes(cfg, "1c_individual_complain")
        complain_text == cfg["1c_individual_complain_text"]
        r1 == replace_between_heading_and_h2(html, "Beschwerderecht",
                                             "Einwilligungserklaerung",
                                             complain_text)
        r2 == replace_between_markers(html, "COMPLAIN_START", "COMPLAIN_END",
                                      complain_text)
        r3 == replace_section_after_heading(html, "Beschwerderecht",
                                            complain_text)
        c1 == <<Call(st, f, "heading_to_h2")>>
        c2 == c1 \o <<Call(st, f, "markers")>>
        c3 == c2 \o <<Call(st, f, "after_heading")>>
    IN  IF complain_text.kind = "absent" THEN Outcome(html, <<>>, <<>>, TRUE)
        ELSE IF ~complain_yes THEN Outcome(html, <<>>, <<>>, FALSE)
        ELSE IF ~Truthy(complain_text)
        THEN Outcome(html, <<Warning(st, f, "text_missing")>>, <<>>, FALSE)
        ELSE IF r1.raised THEN Outcome(html, <<>>, c1, TRUE)
        ELSE IF r1.found
        THEN Outcome(r1.html, <<Debug(st, f, "heading_to_h2")>>, c1, FALSE)
        ELSE IF r2.found
        THEN Outcome(r2.html, <<Debug(st, f, "markers")>>, c2, FALSE)
        ELSE IF r3.raised THEN Outcome(html, <<>>, c3, TRUE)
        ELSE IF r3.found
        THEN Outcome(r3.html, <<Debug(st, f, "after_heading")>>, c3, FALSE)
        ELSE Outcome(html, <<Warning(st, f, "not_located")>>, c3, FALSE)

\* 1d: Complaint rights
ComplaintBlock(site, html, site_cfg) ==
    LET f == "complaint"
        complain_yes == FlagYes(site_cfg, "1c_individual_complain")
        complain_text == site_cfg["1c_individual_complain_text"]
        r1 == replace_between_heading_and_h2(html, "Beschwerderecht",
                                             "Einwilligungserklaerung",
                                             complain_text)
        r2 == replace_between_markers(html, "COMPLAIN_START", "COMPLAIN_END",
                                      complain_text)
        r3 == replace_section_after_heading(html, "Beschwerderecht",
                                            complain_text)
        c1 == <<Call(site, f, "heading_to_h2")>>
        c2 == c1 \o <<Call(site, f, "markers")>>
        c3 == c2 \o <<Call(site, f, "after_heading")>>
    IN  IF ~complain_yes THEN Outcome(html, <<>>, <<>>, FALSE)
        ELSE IF ~Truthy(complain_text)
        THEN Outcome(html, <<Warning(site, f, "text_missing")>>, <<>>, FALSE)
        ELSE IF r1.raised THEN Outcome(html, <<>>, c1, TRUE)
        ELSE IF r1.found
        THEN Outcome(r1.html, <<Debug(site, f, "heading_to_h2")>>, c1, FALSE)
        ELSE IF r2.found
        THEN Outcome(r2.html, <<Debug(site, f, "markers")>>, c2, FALSE)
        ELSE IF r3.raised THEN Outcome(html, <<>>, c3, TRUE)
        ELSE IF r3.found
        THEN Outcome(r3.html, <<Debug(site, f, "after_heading")>>, c3, FALSE)
        ELSE Outcome(html, <<Warning(site, f, "not_located")>>, c3, FALSE)

----------------------------------------------------------------------------
(* main: the loop over mapping.items() *)

\* determine_output_path's file name: the basename of the configured
\* location, else consent_form_<site>.html
Basename(path) ==
    CASE path = "forms/custom.html" -> "custom.html"
      [] OTHER -> path

DefaultName(site) ==
    CASE site = "siteA" -> "consent_form_siteA.html"
      [] site = "siteB" -> "consent_form_siteB.html"
      [] OTHER -> "consent_form_other.html"

determine_output_path(site, site_cfg) ==
    LET configured_path == site_cfg["0_html_consent_form_location"]
    IN  IF Truthy(configured_path) THEN Basename(PyStr(configured_path))
        ELSE DefaultName(site)

site == mapping[idx].site
site_cfg == mapping[idx].cfg

\* every site after the first goes on from the previous site's document
NextSiteCumulative ==
    /\ pc = "loop"
    /\ idx < Len(mapping)
    /\ idx' = idx + 1
    /\ IF Lower(mapping[idx + 1].site) = "default"
       THEN pc' = "loop" /\ UNCHANGED result_html
       ELSE /\ pc' = "reimbursement"
            /\ result_html' = IF produced = <<>> THEN base_template
                               ELSE result_html
    /\ UNCHANGED <<base_template, mapping, dry_run, generated_count,
                   skipped_count, produced, log, calls, steps, m_vars>>

\* for site, site_cfg in mapping.items(): the next entry; the sentinel key
\* is passed over, any other site starts from base_template
NextSite ==
    /\ pc = "loop"
    /\ idx < Len(mapping)
    /\ idx' = idx + 1
    /\ IF Lower(mapping[idx + 1].site) = "default"
       THEN pc' = "loop" /\ UNCHANGED result_html
       ELSE pc' = "reimbursement" /\ result_html' = base_template
    /\ UNCHANGED <<base_template, mapping, dry_run, generated_count,
                   skipped_count, produced, log, calls, steps, m_vars>>

\* one field's block of perform_conditional_replacements; an exception
\* leaves the function and main
Block(at, field, o, next) ==
    /\ pc = at
    /\ log' = log \o o.log
    /\ calls' = calls \o o.calls
    /\ IF o.raised
       THEN pc' = "aborted" /\ UNCHANGED <<result_html, steps>>
       ELSE /\ pc' = next
            /\ result_html' = o.html
            /\ steps' = Append(steps, [site |-> site, field |-> field,
                                       pre |-> result_html, post |-> o.html])
    /\ UNCHANGED <<base_template, mapping, dry_run, idx, generated_count,
                   skipped_count, produced, m_vars>>

Reimbursement ==
    Block("reimbursement", "reimbursement",
          ReimbursementBlock(site, result_html, site_cfg), "data_protection")

DataProtection ==
    Block("data_protection", "data_protection",
          DataProtectionBlock(site, result_html, site_cfg), "complaint")

ComplaintRights ==
    Block("complaint", "complaint",
          ComplaintBlock(site, result_html, site_cfg), "write")

\* determine_output_path, write_text_file unless dry-run, generated_count += 1
WriteOutput ==
    /\ pc = "write"
    /\ produced' = Append(produced,
                          [site |-> site, html |-> result_html,
                           path |-> determine_output_path(site, site_cfg),
                           written |-> ~dry_run])
    /\ generated_count' = generated_count + 1
    /\ pc' = "loop"
    /\ UNCHANGED <<base_template, mapping, dry_run, idx, result_html,
                   skipped_count, log, calls, steps, m_vars>>

\* print(f"Done. Generated: ..., Skipped: ..."); return 0
Summary ==
    /\ pc = "loop"
    /\ idx = Len(mapping)
    /\ pc' = "done"
    /\ UNCHANGED <<base_template, mapping, dry_run, idx, result_html,
                   generated_count, skipped_count, produced, log, calls,
                   steps, m_vars>>

Next == \/ NextSite
        \/ Reimbursement
        \/ DataProtection
        \/ ComplaintRights
        \/ WriteOutput
        \/ Summary

\* the harness is not in use while main runs
HarnessIdle ==
    /\ m_pc = "idle"
    /\ m_html = <<>>
    /\ m_start = ""
    /\ m_end = ""
    /\ m_repl = Absent
    /\ m_res1 = Result(<<>>, FALSE)
    /\ m_res2 = Result(<<>>, FALSE)

\* the state when the loop is entered: template and mapping loaded
Loaded(template, map, dry) ==
    /\ pc = "loop"
    /\ base_template = template
    /\ mapping = map
    /\ dry_run = dry
    /\ idx = 0
    /\ result_html = <<>>
    /\ generated_count = 0
    /\ skipped_count = 0
    /\ produced = <<>>
    /\ log = <<>>
    /\ calls = <<>>
    /\ steps = <<>>
    /\ HarnessIdle

\* a site configuration entry with the given flag and text per field
Cfg(loc, rf, rt, df, dt, cf, ct) ==
    [k \in CfgKeys |->
        CASE k = "0_html_consent_form_location" -> loc
          [] k = "1a_individual_reimbursement" -> rf
          [] k = "1a_individual_reimbursement_text" -> rt
          [] k = "1b_individual_data_protection" -> df
          [] k = "1b_individual_data_protection_text" -> dt
          [] k = "1c_individual_complain" -> cf
          [] k = "1c_individual_complain_text" -> ct]

Yes == Str(<<"yes">>)
No == Str(<<"no">>)

----------------------------------------------------------------------------
(* SpecFields: main on one site, over every short template built from the  *)
(* tokens one field's patterns react to, and over every flag and text      *)
(* value of one field.                                                     *)

ReimbursementAlphabet ==
    {"<!-- REIMBURSEMENT_START -->", "<!--reimbursement_start-->",
     "<!-- REIMBURSEMENT_END -->", "<h3>Aufwandsentschaedigung</h3>",
     "<br>", "\n", "old"}

DataProtectionAlphabet ==
    {"<h3>Verantwortliche</h3>", "<h3>Rechtsgrundlage</h3>",
     "<!-- DPO_START -->", "<!-- DPO_END -->", "<br>", "\n", "old"}

ComplaintAlphabet ==
    {"<h3>Beschwerderecht</h3>", "<h2>Einwilligungserklaerung</h2>",
     "<h2>Studie</h2>", "Einwilligungserklaerung",
     "<!-- COMPLAIN_START -->", "<!-- COMPLAIN_END -->", "<br>", "old"}

\* a template holding every anchor of every field, and one holding none
FullTemplate ==
    <<"<!-- REIMBURSEMENT_START -->", "old", "<!-- REIMBURSEMENT_END -->",
      "<h3>Aufwandsentschaedigung</h3>", "old",
      "<h3>Verantwortliche</h3>", "old", "<h3>Rechtsgrundlage</h3>", "old",
      "<!-- DPO_START -->", "old", "<!-- DPO_END -->",
      "<h3>Beschwerderecht</h3>", "old", "<h2>Einwilligungserklaerung</h2>",
      "<!-- COMPLAIN_START -->", "old", "<!-- COMPLAIN_END -->">>

PlainTemplate == <<"old", "<br>", "old">>

FlagValues == {Absent, Null, Str(<<>>), Yes, Str(<<"YES">>), Str(<<"Yes">>),
               No, Str(<<"true">>), Num}
TextValues == {Absent, Null, Str(<<>>), Str(<<"X">>), Num}

Fields == {"reimbursement", "data_protection", "complaint"}

FieldAlphabet(field) ==
    CASE field = "reimbursement" -> ReimbursementAlphabet
      [] field = "data_protection" -> DataProtectionAlphabet
      [] field = "complaint" -> ComplaintAlphabet

\* the field given the flag and text, the two others both off or both active
FieldCfgs(field, flag, text) ==
    LET others == {<<Absent, Absent>>, <<Yes, Str(<<"Y">>)>>}
    IN  CASE field = "reimbursement" ->
               {Cfg(Absent, flag, text, o[1], o[2], o[1], o[2]) : o \in others}
          [] field = "data_protection" ->
               {Cfg(Absent, o[1], o[2], flag, text, o[1], o[2]) : o \in others}
          [] field = "complaint" ->
               {Cfg(Absent, o[1], o[2], o[1], o[2], flag, text) : o \in others}

ActiveX == Str(<<"X">>)

InitFields ==
    \E field \in Fields :
    \E template \in SeqsUpTo(FieldAlphabet(field), MaxTplLen)
                      \cup {FullTemplate, PlainTemplate} :
    \E flag \in FlagValues, text \in TextValues :
    \E cfg \in FieldCfgs(field, flag, text) :
        /\ \/ template \in {FullTemplate, PlainTemplate}
           \/ flag = Yes /\ text = ActiveX
        /\ Loaded(template, <<[site |-> "siteA", cfg |-> cfg]>>, FALSE)

SpecFields == InitFields /\ [][Next]_vars

----------------------------------------------------------------------------
(* Spec: main over mappings of up to MaxSites entries, the sentinel among   *)
(* the keys, on a few templates.                                            *)

SiteKeys == {"Default", "default", "siteA", "siteB"}

ShortTemplate ==
    <<"<h3>Aufwandsentschaedigung</h3>", "old", "<h3>Verantwortliche</h3>",
      "old", "<br>", "<h3>Beschwerderecht</h3>", "old">>

BatchTemplates == {FullTemplate, PlainTemplate, ShortTemplate}

Custom == Str(<<"forms/custom.html">>)

BatchCfgs ==
    {Cfg(Absent, Absent, Absent, Absent, Absent, Absent, Absent),
     Cfg(Absent, Yes, Str(<<"X">>), Yes, Str(<<"Y">>), Yes, Str(<<"Z">>)),
     Cfg(Custom, Str(<<"YES">>), Str(<<"X", "\n", "X">>), No, Str(<<"Y">>),
         Yes, Absent),
     Cfg(Absent, Yes, Str(<<>>), Yes, Null, Null, Str(<<"Z">>)),
     Cfg(Absent, Yes, Num, No, Absent, Yes, Str(<<"Z">>)),
     Cfg(Custom, No, Absent, Yes, Num, Absent, Absent)}

\* the dict's items in order: distinct keys
Mappings ==
    {map \in SeqsUpTo([site : SiteKeys, cfg : BatchCfgs], MaxSites) :
        \A i, j \in DOMAIN map : i # j => map[i].site # map[j].site}

Init ==
    \E template \in BatchTemplates, map \in Mappings, dry \in BOOLEAN :
        Loaded(template, map, dry)

Spec == Init /\ [][Next]_vars

----------------------------------------------------------------------------
(* The span each field's chain acts on *)

\* One field's chain on a document: the matcher that matches first in the
\* chain's order, the span [s, e) of tokens it replaces (the comments
\* included for markers, the section alone for the heading matchers) and the
\* span [a, b] of tokens the match rests on: from the start anchor to the
\* end of the text the pattern looks ahead at.
NoChainMatch == [kind |-> "none", s |-> 0, e |-> 0, a |-> 0, b |-> 0]

MarkerSpan(doc, m) ==
    [kind |-> "markers", s |-> m.lo, e |-> m.hi + 1, a |-> m.lo, b |-> m.hi]

HeadingSpan(kind, m, b) ==
    [kind |-> kind, s |-> m.pe + 1, e |-> m.rest, a |-> m.at, b |-> b]

AfterHeadingSpan(doc, m) ==
    HeadingSpan("after_heading", m,
                IF m.rest > Len(doc) THEN Len(doc) ELSE m.rest)

\* the last token the lookahead <h2..>[\s\S]*?FRAGMENT[\s\S]*?</h2> reads when
\* it succeeds at k: the first </h2> after the first fragment after the tag
H2LookaheadEnd(doc, k, fragment) ==
    LET f == Min({i \in k..Len(doc) : HasFragment(doc[i], fragment)})
    IN  IF HasFragmentThenClose(doc[f], fragment) THEN f
        ELSE Min({c \in (f+1)..Len(doc) : HasH2Close(doc[c])})

ChainMatch(field, doc) ==
    CASE field = "reimbursement" ->
            LET m1 == MarkerMatch(doc, "REIMBURSEMENT_START", "REIMBURSEMENT_END")
                m2 == AfterHeadingMatch(doc, "Aufwandsentschaedigung")
            IN  IF m1.lo # 0 THEN MarkerSpan(doc, m1)
                ELSE IF m2.at # 0 THEN AfterHeadingSpan(doc, m2)
                ELSE NoChainMatch
      [] field = "data_protection" ->
            LET m1 == BetweenHeadingsMatch(doc, "Verantwortliche", "Rechtsgrundlage")
                m2 == MarkerMatch(doc, "DPO_START", "DPO_END")
                m3 == AfterHeadingMatch(doc, "Verantwortliche")
            IN  IF m1.at # 0 THEN HeadingSpan("between_headings", m1, m1.rest)
                ELSE IF m2.lo # 0 THEN MarkerSpan(doc, m2)
                ELSE IF m3.at # 0 THEN AfterHeadingSpan(doc, m3)
                ELSE NoChainMatch
      [] field = "complaint" ->
            LET m1 == HeadingToH2Match(doc, "Beschwerderecht",
                                       "Einwilligungserklaerung")
                m2 == MarkerMatch(doc, "COMPLAIN_START", "COMPLAIN_END")
                m3 == AfterHeadingMatch(doc, "Beschwerderecht")
            IN  IF m1.at # 0
                THEN HeadingSpan("heading_to_h2", m1,
                                 H2LookaheadEnd(doc, m1.rest,
                                                "Einwilligungserklaerung"))
                ELSE IF m2.lo # 0 THEN MarkerSpan(doc, m2)
                ELSE IF m3.at # 0 THEN AfterHeadingSpan(doc, m3)
                ELSE NoChainMatch

StartMarker(field) ==
    CASE field = "reimbursement" -> "REIMBURSEMENT_START"
      [] field = "data_protection" -> "DPO_START"
      [] field = "complaint" -> "COMPLAIN_START"

EndMarker(field) ==
    CASE field = "reimbursement" -> "REIMBURSEMENT_END"
      [] field = "data_protection" -> "DPO_END"
      [] field = "complaint" -> "COMPLAIN_END"

\* what the matcher of that kind puts in place of the span it replaces
NewContent(field, kind, text) ==
    IF kind = "markers"
    THEN <<Comment(StartMarker(field)), "\n">> \o text
           \o <<"\n", Comment(EndMarker(field))>>
    ELSE text \o <<"\n">>

\* two spans [s, e) that share no token and of which none lies within the other
SpansDisjoint(m, n) == m.e <= n.s \/ n.e <= m.s

RegionsDisjoint(doc) ==
    /\ \A f \in Fields : ChainMatch(f, doc).kind # "none"
    /\ \A f, g \in Fields :
          f # g => SpansDisjoint(ChainMatch(f, doc), ChainMatch(g, doc))

----------------------------------------------------------------------------
(* SpecCompose: main on one site with the three fields active, over the     *)
(* templates in which every field has a region and the regions are         *)
(* pairwise disjoint.                                                      *)

ComposeAlphabet ==
    {"<h3>Aufwandsentschaedigung</h3>", "<!-- REIMBURSEMENT_START -->",
     "<!-- REIMBURSEMENT_END -->", "<h3>Verantwortliche</h3>",
     "<h3>Rechtsgrundlage</h3>", "<h3>Beschwerderecht</h3>",
     "<h2>Einwilligungserklaerung</h2>", "<br>", "old"}

LongTemplates ==
    {FullTemplate,
     <<"<h3>Aufwandsentschaedigung</h3>", "\n", "old", "<br>", "old",
       "<h3>Verantwortliche</h3>", "old", "<h3>Rechtsgrundlage</h3>", "old",
       "<h3>Beschwerderecht</h3>", "old", "<h2>Einwilligungserklaerung</h2>",
       "old">>,
     <<"<!--reimbursement_start-->", "old", "<!-- REIMBURSEMENT_END -->",
       "<!-- DPO_START -->", "old", "<!-- DPO_END -->",
       "<!-- COMPLAIN_START -->", "old", "<!-- COMPLAIN_END -->">>,
     <<"<h3>Beschwerderecht</h3>", "<br>", "<h2>Studie</h2>",
       "<!-- REIMBURSEMENT_START -->", "Einwilligungserklaerung",
       "<!-- REIMBURSEMENT_END -->", "<h2>Studie</h2>",
       "<h3>Verantwortliche</h3>", "old", "<h3>Rechtsgrundlage</h3>">>,
     <<"<h3>Beschwerderecht</h3>", "old", "<h2>Einwilligungserklaerung</h2>",
       "<h3>Verantwortliche</h3>", "old", "<h3>Rechtsgrundlage</h3>",
       "<h3>Aufwandsentschaedigung</h3>", "old">>,
     <<"<h3>Verantwortliche</h3>", "old", "<h3>Rechtsgrundlage</h3>",
       "<!-- REIMBURSEMENT_START -->", "old", "<!-- REIMBURSEMENT_END -->",
       "<br>", "<h3>Beschwerderecht</h3>", "old", "<br>", "old">>,
     <<"<h3>Rechtsgrundlage</h3>", "<!-- DPO_START -->", "old",
       "<!-- DPO_END -->", "<H3 class=a> aufwandsentschaedigung </H3>", "old",
       "</div>", "<!-- COMPLAIN_START -->", "<!-- COMPLAIN_END -->">>}

\* the texts of the three fields: plain ones, one with a boundary and
\* whitespace, and ones that hold anchors of other fields
ComposeTexts ==
    {<<<<"X">>, <<"Y">>, <<"Z">>>>,
     <<<<"X", "<br>", "X">>, <<"\n", "Y">>, <<"Z">>>>,
     <<<<"X", "<h3>Verantwortliche</h3>">>, <<"Y">>, <<"Z">>>>,
     <<<<"X">>, <<"<h3>Beschwerderecht</h3>">>,
       <<"<h3>Aufwandsentschaedigung</h3>", "Z">>>>,
     <<<<"<h3>Rechtsgrundlage</h3>">>, <<"Y", "<!-- REIMBURSEMENT_END -->">>,
       <<"<h3>Verantwortliche</h3>">>>>}

ComposeTemplates ==
    {t \in SeqsUpTo(ComposeAlphabet, MaxComposeLen) \cup LongTemplates :
        RegionsDisjoint(t)}

InitCompose ==
    \E template \in ComposeTemplates, texts \in ComposeTexts :
        Loaded(template,
               <<[site |-> "siteA",
                  cfg |-> Cfg(Absent, Yes, Str(texts[1]), Yes, Str(texts[2]),
                              Yes, Str(texts[3]))]>>,
               FALSE)

SpecCompose == InitCompose /\ [][Next]_vars

----------------------------------------------------------------------------
(* Matcher harness for replace_between_markers *)

MarkerPairs == {<<"REIMBURSEMENT_START", "REIMBURSEMENT_END">>,
                <<"DPO_START", "DPO_END">>}

MarkerAlphabet == {"<!-- REIMBURSEMENT_START -->", "<!--reimbursement_start-->",
                   "<!-- REIMBURSEMENT_END -->", "<!--reimbursement_end-->",
                   "<!-- DPO_START -->", "<!-- DPO_END -->", "old"}

MarkerTexts == {<<>>, <<"X">>, <<"X", "\n", "Y">>,
                <<"<!-- REIMBURSEMENT_START -->">>,
                <<"X", "<!-- REIMBURSEMENT_END -->", "Y">>,
                <<"<!--dpo_end-->", "X">>,
                <<"<!-- REIMBURSEMENT_START -->", "X",
                  "<!-- REIMBURSEMENT_END -->">>}

NoResult == Result(<<>>, FALSE)

DrvIdle ==
    /\ pc = "idle"
    /\ base_template = <<>>
    /\ mapping = <<>>
    /\ dry_run = FALSE
    /\ idx = 0
    /\ result_html = <<>>
    /\ generated_count = 0
    /\ skipped_count = 0
    /\ produced = <<>>
    /\ log = <<>>
    /\ calls = <<>>
    /\ steps = <<>>

InitMarkers ==
    /\ DrvIdle
    /\ m_pc = "input"
    /\ m_html \in SeqsUpTo(MarkerAlphabet, MaxDocLen)
    /\ \E p \in MarkerPairs : m_start = p[1] /\ m_end = p[2]
    /\ m_repl \in {Str(t) : t \in MarkerTexts}
    /\ m_res1 = NoResult
    /\ m_res2 = NoResult

\* new_html, used = replace_between_markers(html, START, END, R)
CallMarkers ==
    /\ m_pc = "input"
    /\ m_res1' = replace_between_markers(m_html, m_start, m_end, m_repl)
    /\ m_pc' = "once"
    /\ UNCHANGED <<m_html, m_start, m_end, m_repl, m_res2, drv_vars>>

\* the same call on the first call's output
CallMarkersAgain ==
    /\ m_pc = "once"
    /\ m_res2' = replace_between_markers(m_res1.html, m_start, m_end, m_repl)
    /\ m_pc' = "twice"
    /\ UNCHANGED <<m_html, m_start, m_end, m_repl, m_res1, drv_vars>>

NextMarkers == CallMarkers \/ CallMarkersAgain

SpecMarkers == InitMarkers /\ [][NextMarkers]_vars

----------------------------------------------------------------------------
(* Matcher harness for the three heading matchers: each applied once to    *)
(* every short document over the tokens its pattern reacts to.             *)

AfterHeadingAlphabet ==
    {"<h3>Aufwandsentschaedigung</h3>",
     "<H3 class=a> aufwandsentschaedigung </H3>", "<h3>Next</h3>",
     "<h2>Studie</h2>", "<br>", "</div>", "</body>", "</html>", "\n",
     "<p>OLD</p>"}

\* documents with the boundaries the alphabet leaves out
AfterHeadingDocs ==
    {<<"<h3>Aufwandsentschaedigung</h3>", "\n", "\n", "<p>OLD</p>",
       "</section>", "<p>OLD</p>">>,
     <<"<p>OLD</p>", "<h3>Aufwandsentschaedigung</h3>", "<p>OLD</p>",
       "<button>", "<br>">>,
     <<"<h3>Next</h3>", "<h3>Aufwandsentschaedigung</h3>", "<p>OLD</p>",
       "\n", "<p>OLD</p>", "</html>", "<h3>Aufwandsentschaedigung</h3>">>}

BetweenHeadingsAlphabet ==
    {"<h3>Verantwortliche</h3>", "<h3>Rechtsgrundlage</h3>", "<h3>Next</h3>",
     "<br>", "\n", "old"}

HeadingPairs == {<<"Verantwortliche", "Rechtsgrundlage">>, <<"Next", "Next">>}

HeadingToH2Alphabet ==
    {"<h3>Beschwerderecht</h3>", "<h2>Einwilligungserklaerung</h2>",
     "<h2>Studie</h2>", "Einwilligungserklaerung", "<br>", "\n", "old"}

HeadingTexts == {Str(<<>>), Str(<<"NEW TEXT">>), Str(<<"X", "<br>", "\n">>), Num}

InitHeadings ==
    /\ DrvIdle
    /\ \/ /\ m_pc = "input_after_heading"
          /\ m_html \in SeqsUpTo(AfterHeadingAlphabet, MaxDocLen)
                           \cup AfterHeadingDocs
          /\ m_start = "Aufwandsentschaedigung"
          /\ m_end = ""
       \/ /\ m_pc = "input_between_headings"
          /\ m_html \in SeqsUpTo(BetweenHeadingsAlphabet, MaxDocLen)
          /\ \E p \in HeadingPairs : m_start = p[1] /\ m_end = p[2]
       \/ /\ m_pc = "input_heading_to_h2"
          /\ m_html \in SeqsUpTo(HeadingToH2Alphabet, MaxDocLen)
          /\ m_start = "Beschwerderecht"
          /\ m_end = "Einwilligungserklaerung"
    /\ m_repl \in HeadingTexts
    /\ m_res1 = NoResult
    /\ m_res2 = NoResult

\* updated, ok = replace_section_after_heading(html, TEXT, R)
CallAfterHeading ==
    /\ m_pc = "input_after_heading"
    /\ m_res1' = replace_section_after_heading(m_html, m_start, m_repl)
    /\ m_pc' = "after_heading"
    /\ UNCHANGED <<m_html, m_start, m_end, m_repl, m_res2, drv_vars>>

\* updated, ok = replace_between_headings(html, START, END, R)
CallBetweenHeadings ==
    /\ m_pc = "input_between_headings"
    /\ m_res1' = replace_between_headings(m_html, m_start, m_end, m_repl)
    /\ m_pc' = "between_headings"
    /\ UNCHANGED <<m_html, m_start, m_end, m_repl, m_res2, drv_vars>>

\* updated, ok = replace_between_heading_and_h2(html, START, FRAGMENT, R)
CallHeadingToH2 ==
    /\ m_pc = "input_heading_to_h2"
    /\ m_res1' = replace_between_heading_and_h2(m_html, m_start, m_end, m_repl)
    /\ m_pc' = "heading_to_h2"
    /\ UNCHANGED <<m_html, m_start, m_end, m_repl, m_res2, drv_vars>>

NextHeadings == CallAfterHeading \/ CallBetweenHeadings \/ CallHeadingToH2

SpecHeadings == InitHeadings /\ [][NextHeadings]_vars

----------------------------------------------------------------------------
(* Claims about replace_between_markers *)

IsStartAt(i) == CommentName(m_html[i]) = m_start
IsEndAt(j) == CommentName(m_html[j]) = m_end

\* the document holds a START comment followed later by an END comment
HasMarkerPair ==
    \E i \in DOMAIN m_html : \E j \in (i+1)..Len(m_html) :
        IsStartAt(i) /\ IsEndAt(j)

FirstStart == Min({i \in DOMAIN m_html : IsStartAt(i)})
FirstEndAfterFirstStart ==
    Min({j \in (FirstStart+1)..Len(m_html) : IsEndAt(j)})

\* C1: when the document holds a START comment followed later by an END
\* comment, replace_between_markers reports found and returns the text before
\* the first START comment, then "<!-- START -->", newline, R, newline,
\* "<!-- END -->", then the text after the first END comment that follows
\* that START, so only the first pair is replaced and the rest is unchanged.
C1_MarkerReplacement ==
    (m_pc # "input" /\ HasMarkerPair) =>
        /\ m_res1.found
        /\ ~m_res1.raised
        /\ m_res1.html =
              SubSeq(m_html, 1, FirstStart - 1)
                \o <<Comment(m_start), "\n">> \o m_repl.toks
                \o <<"\n", Comment(m_end)>>
                \o SubSeq(m_html, FirstEndAfterFirstStart + 1, Len(m_html))

\* a call on a document with two marker pairs, written un-normalised
C1_Witness ==
    /\ m_pc = "once"
    /\ m_res1.found
    /\ m_repl.toks = <<"X">>
    /\ Cardinality({j \in DOMAIN m_html : IsEndAt(j)}) >= 2
    /\ Cardinality({i \in DOMAIN m_html : IsStartAt(i)}) >= 2
    /\ m_html[FirstStart] # Comment(m_start)

\* C2 as stated: applying replace_between_markers twice with the same START,
\* END and R gives the same document as applying it once, for every R.
C2_IdempotentAnyText ==
    m_pc = "twice" => m_res2.html = m_res1.html

\* R holds a comment that the END pattern matches
TextHasEnd == \E k \in DOMAIN m_repl.toks : CommentName(m_repl.toks[k]) = m_end

\* C2 amended: applying replace_between_markers twice with the same START,
\* END and R gives the same document as applying it once, provided R holds
\* no END comment.
C2_IdempotentTextWithoutEnd ==
    (m_pc = "twice" /\ ~TextHasEnd) => m_res2.html = m_res1.html

\* a second call that matched again, R holding a START comment but no END
C2_Witness ==
    /\ m_pc = "twice"
    /\ ~TextHasEnd
    /\ m_res1.found /\ m_res2.found
    /\ \E k \in DOMAIN m_repl.toks : CommentName(m_repl.toks[k]) = m_start
    /\ m_res1.html # m_html

----------------------------------------------------------------------------
(* Claims about the field replacement policy *)

FlagKey(field) ==
    CASE field = "reimbursement" -> "1a_individual_reimbursement"
      [] field = "data_protection" -> "1b_individual_data_protection"
      [] field = "complaint" -> "1c_individual_complain"

TextKey(field) ==
    CASE field = "reimbursement" -> "1a_individual_reimbursement_text"
      [] field = "data_protection" -> "1b_individual_data_protection_text"
      [] field = "complaint" -> "1c_individual_complain_text"

CfgOfSite(st) == mapping[CHOOSE i \in DOMAIN mapping : mapping[i].site = st].cfg
FlagOf(st, field) == CfgOfSite(st)[FlagKey(field)]
TextOf(st, field) == CfgOfSite(st)[TextKey(field)]

\* the flag is the string "yes" in some casing
FlagIsYesAnyCase(v) ==
    v.kind = "str" /\ v.toks # <<>> /\ v.toks[1] \in {"yes", "Yes", "YES"}
\* the text is a non-empty value
TextPresent(v) == v.kind = "num" \/ (v.kind = "str" /\ Len(v.toks) > 0)

CallsFor(st, field) ==
    SelectSeq(calls, LAMBDA c : c.site = st /\ c.field = field)
WarningsFor(st, field) ==
    SelectSeq(log, LAMBDA l : l.site = st /\ l.field = field
                              /\ l.level = "warning")
LogFor(st, field) ==
    SelectSeq(log, LAMBDA l : l.site = st /\ l.field = field)
ProducedFor(st) == SelectSeq(produced, LAMBDA d : d.site = st)

\* doc holds a comment named start followed later by a comment named end
HasPair(doc, start, end) ==
    \E i \in DOMAIN doc : \E j \in (i+1)..Len(doc) :
        CommentName(doc[i]) = start /\ CommentName(doc[j]) = end
HasHeading(doc, text) == \E i \in DOMAIN doc : H3Text(doc[i]) = text

FirstComment(doc, name) == Min({i \in DOMAIN doc : CommentName(doc[i]) = name})
FirstCommentAfter(doc, name, i) ==
    Min({j \in (i+1)..Len(doc) : CommentName(doc[j]) = name})

\* the document with its first START .. END span replaced by the normalised
\* comments around text
MarkersReplaced(doc, start, end, text) ==
    SubSeq(doc, 1, FirstComment(doc, start) - 1)
      \o <<Comment(start), "\n">> \o text \o <<"\n", Comment(end)>>
      \o SubSeq(doc, FirstCommentAfter(doc, end, FirstComment(doc, start)) + 1,
                Len(doc))

IsPrefix(a, b) == Len(a) <= Len(b) /\ SubSeq(b, 1, Len(a)) = a
IsSuffix(a, b) == Len(a) <= Len(b) /\ SubSeq(b, Len(b) - Len(a) + 1, Len(b)) = a

C3_Case(e) ==
    /\ e.field = "reimbursement"
    /\ FlagIsYesAnyCase(FlagOf(e.site, "reimbursement"))
    /\ TextPresent(TextOf(e.site, "reimbursement"))
    /\ HasPair(e.pre, "REIMBURSEMENT_START", "REIMBURSEMENT_END")
    /\ HasHeading(e.pre, "Aufwandsentschaedigung")

\* C3: when the reimbursement field is active with non-empty text and the
\* document holds both a REIMBURSEMENT_START/REIMBURSEMENT_END pair and an h3
\* heading Aufwandsentschaedigung, the field's result is the marker matcher's:
\* the first marker span is replaced, only the marker matcher is called, and a
\* heading that lies before (after) the span stays with everything up to
\* (from) the span as it was.
C3_MarkersBeforeHeading ==
    \A n \in DOMAIN steps :
        LET e == steps[n]
            lo == FirstComment(e.pre, "REIMBURSEMENT_START")
            hi == FirstCommentAfter(e.pre, "REIMBURSEMENT_END", lo)
        IN  C3_Case(e) =>
              /\ e.post = MarkersReplaced(e.pre, "REIMBURSEMENT_START",
                                          "REIMBURSEMENT_END",
                                          TextOf(e.site, "reimbursement").toks)
              /\ CallsFor(e.site, "reimbursement")
                    = <<Call(e.site, "reimbursement", "markers")>>
              /\ WarningsFor(e.site, "reimbursement") = <<>>
              /\ IsPrefix(SubSeq(e.pre, 1, lo - 1), e.post)
              /\ IsSuffix(SubSeq(e.pre, hi + 1, Len(e.pre)), e.post)

\* the heading with a section of its own stands before the marker pair
C3_Witness ==
    \E n \in DOMAIN steps :
        /\ C3_Case(steps[n])
        /\ steps[n].pre = <<"<h3>Aufwandsentschaedigung</h3>", "old",
                            "<!--reimbursement_start-->",
                            "<!-- REIMBURSEMENT_END -->">>
        /\ steps[n].post = <<"<h3>Aufwandsentschaedigung</h3>", "old",
                             "<!-- REIMBURSEMENT_START -->", "\n", "X", "\n",
                             "<!-- REIMBURSEMENT_END -->">>

\* the document matches none of the matchers of the field's chain: no marker
\* pair of the field and no h3 heading with the field's anchor text
NoAnchor(field, doc) ==
    CASE field = "reimbursement" ->
            /\ ~HasPair(doc, "REIMBURSEMENT_START", "REIMBURSEMENT_END")
            /\ ~HasHeading(doc, "Aufwandsentschaedigung")
      [] field = "data_protection" ->
            /\ ~HasPair(doc, "DPO_START", "DPO_END")
            /\ ~HasHeading(doc, "Verantwortliche")
      [] field = "complaint" ->
            /\ ~HasPair(doc, "COMPLAIN_START", "COMPLAIN_END")
            /\ ~HasHeading(doc, "Beschwerderecht")

C4_Case(e) ==
    /\ FlagIsYesAnyCase(FlagOf(e.site, e.field))
    /\ TextPresent(TextOf(e.site, e.field))
    /\ NoAnchor(e.field, e.pre)

\* the run did not stop at site st: once main is done st has its document
Continues(st) ==
    /\ pc # "aborted"
    /\ pc = "done" => Len(ProducedFor(st)) = 1

\* C4: for each field, when the field is active with non-empty text and the
\* document matches none of the matchers of its chain, the field leaves the
\* document unchanged and logs exactly one warning, which names the site and
\* the field, and the run goes on to the following fields and sites.
C4_RegionNotFound ==
    \A n \in DOMAIN steps :
        LET e == steps[n]
        IN  C4_Case(e) =>
              /\ e.post = e.pre
              /\ WarningsFor(e.site, e.field)
                    = <<Warning(e.site, e.field, "not_located")>>
              /\ Continues(e.site)

\* all three fields active on a template with no anchor at all, run finished
C4_Witness ==
    /\ pc = "done"
    /\ base_template = PlainTemplate
    /\ Len(steps) = 3
    /\ \A n \in DOMAIN steps : C4_Case(steps[n])
    /\ Len(log) = 3

C5_Case(e) ==
    /\ FlagIsYesAnyCase(FlagOf(e.site, e.field))
    /\ ~TextPresent(TextOf(e.site, e.field))

OthersInactive(st, field) ==
    \A g \in Fields \ {field} : ~FlagIsYesAnyCase(FlagOf(st, g))

\* C5: when a field's flag is "yes" in any casing and its text is absent or
\* empty, no matcher is called for the field, exactly one warning is logged
\* for it, the field leaves the document unchanged, the site's document is
\* still produced and counted, and it equals the template when no other
\* field is active.
C5_TextMissing ==
    \A n \in DOMAIN steps :
        LET e == steps[n]
        IN  C5_Case(e) =>
              /\ CallsFor(e.site, e.field) = <<>>
              /\ WarningsFor(e.site, e.field)
                    = <<Warning(e.site, e.field, "text_missing")>>
              /\ e.post = e.pre
              /\ pc # "aborted"
              /\ pc = "done" =>
                    /\ Len(ProducedFor(e.site)) = 1
                    /\ generated_count = Len(produced)
                    /\ OthersInactive(e.site, e.field) =>
                          ProducedFor(e.site)[1].html = base_template

\* flag "YES", text the empty string, on the template with every anchor
C5_Witness ==
    /\ pc = "done"
    /\ base_template = FullTemplate
    /\ generated_count = 1
    /\ \E n \in DOMAIN steps :
          /\ C5_Case(steps[n])
          /\ steps[n].field = "data_protection"
          /\ FlagOf(steps[n].site, "data_protection") = Str(<<"YES">>)
          /\ TextOf(steps[n].site, "data_protection") = Str(<<>>)
          /\ OthersInactive(steps[n].site, "data_protection")

\* C6: for each field, when the flag is absent or is not the string "yes" in
\* some casing, no matcher is called and no warning is logged for the field
\* and the field leaves the document unchanged, whatever text is configured
\* and whatever anchors the document holds.
C6_InactiveField ==
    \A n \in DOMAIN steps :
        LET e == steps[n]
        IN  ~FlagIsYesAnyCase(FlagOf(e.site, e.field)) =>
              /\ CallsFor(e.site, e.field) = <<>>
              /\ LogFor(e.site, e.field) = <<>>
              /\ e.post = e.pre

\* the flag key absent, a text configured, every anchor in the document
C6_Witness ==
    \E n \in DOMAIN steps :
        /\ steps[n].field = "complaint"
        /\ steps[n].pre = FullTemplate
        /\ FlagOf(steps[n].site, "complaint") = Absent
        /\ TextOf(steps[n].site, "complaint") = Str(<<"X">>)

----------------------------------------------------------------------------
(* Claims about the batch driver *)

IsSentinel(key) == key \in {"default", "Default", "DEFAULT"}

NonSentinelEntries == {i \in DOMAIN mapping : ~IsSentinel(mapping[i].site)}

\* C8: no document is produced for a key that is "default" in any casing
\* and it is not counted; when main is done, generated_count is the number
\* of the other keys of the configuration and skipped_count is zero.
C8_SentinelAndCounters ==
    /\ \A n \in DOMAIN produced : ~IsSentinel(produced[n].site)
    /\ skipped_count = 0
    /\ generated_count = Len(produced)
    /\ pc = "done" => generated_count = Cardinality(NonSentinelEntries)

\* a finished run over the key "Default" and one site
C8_Witness ==
    /\ pc = "done"
    /\ Len(mapping) = 2
    /\ mapping[1].site = "Default"
    /\ generated_count = 1

\* what perform_conditional_replacements returns for a template and one
\* entry taken alone
PolicyAlone(template, cfg) ==
    LET a == ReimbursementBlock("alone", template, cfg)
        b == DataProtectionBlock("alone", a.html, cfg)
        c == ComplaintBlock("alone", b.html, cfg)
    IN  c.html

\* C9: the document produced for a site is the policy applied to the
\* unmodified template with that site's entry alone, whatever other sites
\* the configuration holds and wherever the site stands among them.
C9_SiteIndependence ==
    \A n \in DOMAIN produced :
        produced[n].html
            = PolicyAlone(base_template, CfgOfSite(produced[n].site))

\* two sites, the first of which changed the template, both produced
C9_Witness ==
    /\ Len(produced) = 2
    /\ produced[1].html # base_template
    /\ produced[2].html # produced[1].html
    /\ produced[2].html # base_template

\* every value of every entry is a string or is absent (key missing or null)
StringsOrAbsent ==
    \A i \in DOMAIN mapping : \A k \in CfgKeys :
        mapping[i].cfg[k].kind \in {"str", "absent", "null"}

\* C10: when every entry maps the field names to strings or absent values,
\* no exception leaves the policy, a warning does not stop the run, the run
\* can always take its next step until the summary is reached, and then
\* every non-sentinel site has its document.
C10_NeverAborts ==
    StringsOrAbsent =>
        /\ pc # "aborted"
        /\ pc # "done" => ENABLED Next
        /\ pc = "done" =>
              \A i \in NonSentinelEntries :
                  Len(ProducedFor(mapping[i].site)) = 1

\* a finished run of two sites with both kinds of warning logged
C10_Witness ==
    /\ StringsOrAbsent
    /\ pc = "done"
    /\ Len(produced) = 2
    /\ \E n \in DOMAIN log : log[n].what = "text_missing"
    /\ \E n \in DOMAIN log : log[n].what = "not_located"

----------------------------------------------------------------------------
(* Claims about the composition of the three fields *)

Splice(doc, s, e, new) ==
    SubSeq(doc, 1, s - 1) \o new \o SubSeq(doc, e, Len(doc))

\* doc with the region of every field in fs replaced by the field's own new
\* content, the regions taken as they lie in doc: cur is doc with the
\* regions to the right of those of fs replaced already
RECURSIVE ReplacedFrom(_, _, _, _)
ReplacedFrom(doc, cur, fs, st) ==
    IF fs = {} THEN cur
    ELSE LET f == CHOOSE x \in fs :
                     \A y \in fs : ChainMatch(y, doc).s <= ChainMatch(x, doc).s
             m == ChainMatch(f, doc)
         IN  ReplacedFrom(doc,
                          Splice(cur, m.s, m.e,
                                 NewContent(f, m.kind, TextOf(st, f).toks)),
                          fs \ {f}, st)

AllReplaced(doc, fs, st) == ReplacedFrom(doc, doc, fs, st)

AllActive(st) ==
    \A f \in Fields : /\ FlagIsYesAnyCase(FlagOf(st, f))
                      /\ TextOf(st, f).kind = "str"
                      /\ TextOf(st, f).toks # <<>>

\* C7 as stated: on a template in which the three fields' regions are
\* pairwise disjoint, the three fields applied in order give the template
\* with each region replaced once by its own field's text and nothing else
\* changed.
C7_DisjointRegions ==
    \A n \in DOMAIN produced :
        LET st == produced[n].site
        IN  (AllActive(st) /\ RegionsDisjoint(base_template)) =>
                produced[n].html = AllReplaced(base_template, Fields, st)

\* tok is an anchor of the chain of a field
IsAnchorOf(field, tok) ==
    CASE field = "reimbursement" ->
            \/ CommentName(tok) \in {"REIMBURSEMENT_START", "REIMBURSEMENT_END"}
            \/ H3Text(tok) = "Aufwandsentschaedigung"
      [] field = "data_protection" ->
            \/ CommentName(tok) \in {"DPO_START", "DPO_END"}
            \/ H3Text(tok) \in {"Verantwortliche", "Rechtsgrundlage"}
      [] field = "complaint" ->
            \/ CommentName(tok) \in {"COMPLAIN_START", "COMPLAIN_END"}
            \/ H3Text(tok) = "Beschwerderecht"
            \/ StartsH2(tok) \/ HasH2Close(tok)
            \/ HasFragment(tok, "Einwilligungserklaerung")

LaterFields(field) ==
    CASE field = "reimbursement" -> {"data_protection", "complaint"}
      [] field = "data_protection" -> {"complaint"}
      [] field = "complaint" -> {}

\* no field's text holds an anchor of the chain of a field applied after it
TextsHoldNoLaterAnchor(st) ==
    \A f \in Fields : \A g \in LaterFields(f) :
        \A k \in DOMAIN TextOf(st, f).toks :
            ~IsAnchorOf(g, TextOf(st, f).toks[k])

\* the region of m (or, when it is empty, the place of insertion) lies
\* within the span n's match rests on
Touches(m, n) == m.s <= n.b /\ m.e > n.a

\* no field's region lies within the text another field's match rests on
RegionsApart(doc) ==
    /\ \A f \in Fields : ChainMatch(f, doc).kind # "none"
    /\ \A f, g \in Fields :
          f # g => ~Touches(ChainMatch(f, doc), ChainMatch(g, doc))

C7_Case(st) ==
    /\ AllActive(st)
    /\ RegionsApart(base_template)
    /\ TextsHoldNoLaterAnchor(st)

\* C7 amended: on a template in which every field has a region and no
\* field's region lies within the text another field's match rests on (from
\* its start anchor to the end of the text its pattern looks ahead at), and
\* with texts that hold no anchor of a field applied later, the three fields
\* applied in order give the template with each region replaced once by its
\* own field's text and nothing else changed.
C7_RegionsApart ==
    \A n \in DOMAIN produced :
        C7_Case(produced[n].site) =>
            produced[n].html
                = AllReplaced(base_template, Fields, produced[n].site)

\* the three sections of the usual layout replaced, a boundary in one text
\* and whitespace at the start of another
C7_Witness ==
    /\ Len(produced) = 1
    /\ C7_Case(produced[1].site)
    /\ Len(base_template) = 13
    /\ TextOf("siteA", "reimbursement").toks = <<"X", "<br>", "X">>
    /\ produced[1].html =
          <<"<h3>Aufwandsentschaedigung</h3>", "\n", "X", "<br>", "X", "\n",
            "<br>", "old",
            "<h3>Verantwortliche</h3>", "\n", "Y", "\n",
            "<h3>Rechtsgrundlage</h3>",
            "old",
            "<h3>Beschwerderecht</h3>", "Z", "\n",
            "<h2>Einwilligungserklaerung</h2>", "old">>

----------------------------------------------------------------------------
(* Claims about the heading matchers *)

\* the first h3 heading of the document with the start text
FirstHeading == Min({i \in DOMAIN m_html : H3Text(m_html[i]) = m_start})

\* the last token of the whitespace run that directly follows token i (i
\* itself when none does): it stays in place with the heading
KeptThrough(i) ==
    CHOOSE pe \in i..Len(m_html) :
        /\ \A k \in (i+1)..pe : m_html[k] = "\n"
        /\ pe = Len(m_html) \/ m_html[pe + 1] # "\n"

\* found, the document being: the text through the heading (and the
\* whitespace directly after it), the replacement text and a newline, then
\* the document from token k on
ReplacedUpTo(k) ==
    [html |-> SubSeq(m_html, 1, KeptThrough(FirstHeading)) \o m_repl.toks
                \o <<"\n">> \o SubSeq(m_html, k, Len(m_html)),
     found |-> TRUE, raised |-> FALSE]

NotFoundUnchanged == [html |-> m_html, found |-> FALSE, raised |-> FALSE]

\* the first token after the heading's whitespace at which End holds, the end
\* of the document when there is none
FirstAfterHeading(End(_)) ==
    LET from == KeptThrough(FirstHeading) + 1
        ks == {k \in from..Len(m_html) : End(m_html[k])}
    IN  IF ks = {} THEN Len(m_html) + 1 ELSE Min(ks)

\* an h2 element whose own content holds the fragment
IsH2Containing(tok) == StartsH2(tok) /\ HasFragmentThenClose(tok, m_end)

\* C12: replace_between_heading_and_h2 replaces from after the start h3
\* heading up to, not including, the first later h2 element whose own content
\* (between its opening tag and its own closing tag) holds the fragment; an h2
\* element in between whose content does not hold the fragment is no end
\* boundary, and the end h2 element is kept.
C12_EndsAtH2Containing ==
    (/\ m_pc = "heading_to_h2"
     /\ m_repl.kind = "str"
     /\ \E i \in DOMAIN m_html : \E k \in (i+1)..Len(m_html) :
           H3Text(m_html[i]) = m_start /\ IsH2Containing(m_html[k]))
    => m_res1 = ReplacedUpTo(FirstAfterHeading(IsH2Containing))

\* an h2 or h3 opening tag, </section>, </div>, <button or <br
IsListedBoundary(tok) ==
    \/ H3Text(tok) # ""
    \/ StartsH2(tok)
    \/ tok \in {"</section>", "</div>", "<button>", "<br>"}

\* the same, or </body> or </html>
IsListedOrDocumentEnd(tok) == IsListedBoundary(tok) \/ tok \in {"</body>", "</html>"}

C13_Case ==
    /\ m_pc = "after_heading"
    /\ m_repl.kind = "str"
    /\ \E i \in DOMAIN m_html : H3Text(m_html[i]) = m_start

\* C13 as stated: for the first h3 heading with the anchor text,
\* replace_section_after_heading replaces everything after the heading up to,
\* not including, the earliest following h2 or h3 opening tag, </section>,
\* </div>, <button, <br, or the end of the document, by the replacement text,
\* and keeps that boundary and everything after it.
C13_ListedBoundaries ==
    C13_Case => m_res1 = ReplacedUpTo(FirstAfterHeading(IsListedBoundary))

\* C13 amended: for the first h3 heading with the anchor text,
\* replace_section_after_heading replaces everything after the heading (and
\* the whitespace directly after it) up to, not including, the earliest
\* following h2 or h3 opening tag, </section>, </div>, <button, <br, </body>,
\* </html>, or the end of the document, by the replacement text and a newline,
\* and keeps that boundary and everything after it.
C13_BoundariesWithDocumentEnd ==
    C13_Case => m_res1 = ReplacedUpTo(FirstAfterHeading(IsListedOrDocumentEnd))

\* the scenario of the specification: OLD goes, NEW TEXT stands before the
\* next heading
C13_Witness ==
    /\ m_pc = "after_heading"
    /\ m_html = <<"<h3>Aufwandsentschaedigung</h3>", "<p>OLD</p>",
                  "<h3>Next</h3>">>
    /\ m_repl = Str(<<"NEW TEXT">>)
    /\ m_res1.found
    /\ m_res1.html = <<"<h3>Aufwandsentschaedigung</h3>", "NEW TEXT", "\n",
                       "<h3>Next</h3>">>

\* an h3 heading with the end text
IsEndHeading(tok) == H3Text(tok) = m_end

\* C14: when an h3 with the end heading text comes after an h3 with the start
\* heading text, replace_between_headings replaces everything after the start
\* heading up to, not including, the first later h3 with the end heading text
\* (the end heading is kept, other h3 headings in between go with the
\* replaced span); when no end heading comes after the start heading it
\* reports not found and returns the document unchanged.
C14_BetweenHeadings ==
    (m_pc = "between_headings" /\ m_repl.kind = "str") =>
        IF \E i \in DOMAIN m_html : \E j \in (i+1)..Len(m_html) :
               H3Text(m_html[i]) = m_start /\ IsEndHeading(m_html[j])
        THEN m_res1 = ReplacedUpTo(FirstAfterHeading(IsEndHeading))
        ELSE m_res1 = NotFoundUnchanged

\* another h3 heading between the two headings goes with the span
C14_Witness ==
    /\ m_pc = "between_headings"
    /\ m_html = <<"<h3>Verantwortliche</h3>", "<h3>Next</h3>", "old",
                  "<h3>Rechtsgrundlage</h3>">>
    /\ m_repl = Str(<<"NEW TEXT">>)
    /\ m_res1.found
    /\ m_res1.html = <<"<h3>Verantwortliche</h3>", "NEW TEXT", "\n",
                       "<h3>Rechtsgrundlage</h3>">>

----------------------------------------------------------------------------
(* Claims about the matcher chains *)

\* the field is active and its text is a non-empty string
ActiveWithText(e) ==
    /\ FlagIsYesAnyCase(FlagOf(e.site, e.field))
    /\ TextOf(e.site, e.field).kind = "str"
    /\ TextOf(e.site, e.field).toks # <<>>

\* the chain of a field as the claims give it: the matcher names in order and
\* what each returns on the document
ChainOrder(field) ==
    IF field = "data_protection"
    THEN <<"between_headings", "markers", "after_heading">>
    ELSE <<"heading_to_h2", "markers", "after_heading">>

ChainResult(field, n, doc, text) ==
    CASE n = 1 /\ field = "data_protection" ->
            replace_between_headings(doc, "Verantwortliche", "Rechtsgrundlage",
                                     text)
      [] n = 1 /\ field = "complaint" ->
            replace_between_heading_and_h2(doc, "Beschwerderecht",
                                           "Einwilligungserklaerung", text)
      [] n = 2 -> replace_between_markers(doc, StartMarker(field),
                                          EndMarker(field), text)
      [] n = 3 /\ field = "data_protection" ->
            replace_section_after_heading(doc, "Verantwortliche", text)
      [] n = 3 /\ field = "complaint" ->
            replace_section_after_heading(doc, "Beschwerderecht", text)

\* the positions of the chain whose matcher reports found on the document
FoundAt(field, doc, text) ==
    {n \in 1..3 : ChainResult(field, n, doc, text).found}

C11_Case(e) ==
    /\ e.field \in {"data_protection", "complaint"}
    /\ ActiveWithText(e)

\* C11: for the data-protection and the complaint-rights field the matchers
\* are tried in the order heading-based primary matcher, marker pair,
\* heading-then-boundary fallback: the matchers called are those of the chain
\* up to and including the first that reports found, in that order, the
\* field's result is that matcher's result, and no later matcher is called;
\* when none reports found all three were called and the document is
\* unchanged.
C11_ChainOrder ==
    \A k \in DOMAIN steps :
        LET e == steps[k]
            text == TextOf(e.site, e.field)
            found == FoundAt(e.field, e.pre, text)
            first == Min(found)
        IN  C11_Case(e) =>
              IF found = {}
              THEN /\ e.post = e.pre
                   /\ CallsFor(e.site, e.field)
                         = [n \in 1..3 |->
                               Call(e.site, e.field, ChainOrder(e.field)[n])]
              ELSE /\ e.post = ChainResult(e.field, first, e.pre, text).html
                   /\ CallsFor(e.site, e.field)
                         = [n \in 1..first |->
                               Call(e.site, e.field, ChainOrder(e.field)[n])]
                   /\ LogFor(e.site, e.field)
                         = <<Debug(e.site, e.field, ChainOrder(e.field)[first])>>

\* the primary matcher misses (no Rechtsgrundlage heading), the marker pair
\* matches, and the fallback, whose heading is there, is not called
C11_Witness ==
    \E k \in DOMAIN steps :
        /\ C11_Case(steps[k])
        /\ steps[k].field = "data_protection"
        /\ steps[k].pre = <<"<h3>Verantwortliche</h3>", "old",
                            "<!-- DPO_START -->", "<!-- DPO_END -->">>
        /\ steps[k].post = <<"<h3>Verantwortliche</h3>", "old",
                             "<!-- DPO_START -->", "\n", "X", "\n",
                             "<!-- DPO_END -->">>
        /\ CallsFor(steps[k].site, "data_protection")
              = <<Call(steps[k].site, "data_protection", "between_headings"),
                  Call(steps[k].site, "data_protection", "markers")>>

\* the anchor text of the field's heading-then-boundary fallback
FallbackAnchor(field) ==
    CASE field = "reimbursement" -> "Aufwandsentschaedigung"
      [] field = "data_protection" -> "Verantwortliche"
      [] field = "complaint" -> "Beschwerderecht"

\* a matcher that stands before the fallback in the field's chain matches
EarlierMatcherMatches(field, doc) ==
    \/ HasPair(doc, StartMarker(field), EndMarker(field))
    \/ /\ field = "data_protection"
       /\ \E i \in DOMAIN doc : \E j \in (i+1)..Len(doc) :
             /\ H3Text(doc[i]) = "Verantwortliche"
             /\ H3Text(doc[j]) = "Rechtsgrundlage"
    \/ /\ field = "complaint"
       /\ \E i \in DOMAIN doc : \E j \in (i+1)..Len(doc) :
             /\ H3Text(doc[i]) = "Beschwerderecht"
             /\ H2Lookahead(doc, j, "Einwilligungserklaerung")

LastHeadingOnly(field, doc) ==
    /\ doc # <<>>
    /\ \A i \in DOMAIN doc : H3Text(doc[i]) = FallbackAnchor(field) <=> i = Len(doc)

\* C15: for an active field with non-empty text, when no earlier matcher of
\* the chain matches and the document holds an h3 heading with the fallback's
\* anchor text, the fallback reports found, also when nothing follows the
\* heading (the text and a newline are then put at the end of the document);
\* and the region-not-found warning is logged if and only if no earlier
\* matcher matches and the document holds no h3 heading with that anchor text.
C15_FallbackAndWarning ==
    \A k \in DOMAIN steps :
        LET e == steps[k]
            reached == ~EarlierMatcherMatches(e.field, e.pre)
            heading == HasHeading(e.pre, FallbackAnchor(e.field))
        IN  ActiveWithText(e) =>
              /\ (reached /\ heading) =>
                    /\ LogFor(e.site, e.field)
                          = <<Debug(e.site, e.field, "after_heading")>>
                    /\ LastHeadingOnly(e.field, e.pre) =>
                          e.post = e.pre \o TextOf(e.site, e.field).toks
                                     \o <<"\n">>
              /\ WarningsFor(e.site, e.field)
                    = IF reached /\ ~heading
                      THEN <<Warning(e.site, e.field, "not_located")>>
                      ELSE <<>>

\* the heading is the last thing in the document
C15_Witness ==
    \E k \in DOMAIN steps :
        /\ ActiveWithText(steps[k])
        /\ steps[k].field = "data_protection"
        /\ steps[k].pre = <<"old", "<h3>Verantwortliche</h3>">>
        /\ steps[k].post = <<"old", "<h3>Verantwortliche</h3>", "X", "\n">>
        /\ WarningsFor(steps[k].site, "data_protection") = <<>>

====
